---- MODULE Spec2Model ----
(***************************************************************************)
(* Model of the per-shard logical clock map                                *)
(* (lib/collection/src/shards/local_shard/clock_map.rs): the ClockMap, its *)
(* Clock counters, the RecoveryPoint projection and the JSON persistence   *)
(* through an atomically renamed temporary file; and of the inverted index *)
(* of the full-text field index                                            *)
(* (lib/segment/src/index/field_index/full_text_index/inverted_index.rs,   *)
(* posting_list.rs): vocabulary, posting lists, per-point documents.       *)
(***************************************************************************)
EXTENDS Integers, Sequences, FiniteSets, Bags, TLC

\* ------------------------------------------------------------------ bounds

\* Number of distinct (peer_id, clock_id) keys the inputs are drawn from.
NumKeys == 2

\* Largest clock tick carried by an input tag; ticks are 0..MaxTick.
MaxTick == 3

\* Number of threads that can be inside Clock::advance_to at the same time.
NumThreads == 2

\* Number of distinct token strings the documents and queries are drawn from.
NumWords == 2

\* Largest point id (PointOffsetType) given to the index; ids are 0..MaxPoint.
MaxPoint == 1

\* Longest parsed query, in tokens.
MaxQueryLen == 2

\* Cap on points_count: index_document is not called beyond it.
MaxPointsCount == 3

\* Largest id given to a PostingList on its own; ids are 0..MaxId.
MaxId == 4

\* Longest posting list given to CompressedPostingList::new.
MaxListLen == 260

\* Largest gap between neighbours in those lists.
MaxStride == 3

\* bitpacking::BitPacker4x::BLOCK_LEN
BLOCK_LEN == 128

\* The first id of the lists that do not start at 0.
FirstId == 1000

\* ------------------------------------------------------------------ values

Max(a, b) == IF a >= b THEN a ELSE b

\* Key { peer_id, clock_id }
KeyOf(i) == [peer_id |-> ((i - 1) % 2) + 1, clock_id |-> (i - 1) \div 2]

Keys == { KeyOf(i) : i \in 1..NumKeys }

Ticks == 0..MaxTick

\* ClockTag { peer_id, clock_id, clock_tick, force }
ClockTags == { [peer_id |-> k.peer_id, clock_id |-> k.clock_id,
                clock_tick |-> t, force |-> f] :
               k \in Keys, t \in Ticks, f \in BOOLEAN }

\* The empty HashMap (ClockMap::default(), RecoveryPoint::default()).
EmptyMap == << >>

\* HashMap insert: add or overwrite one entry.
MapInsert(m, k, v) == [x \in (DOMAIN m) \cup {k} |-> IF x = k THEN v ELSE m[x]]

\* Key::from_tag
from_tag(clock_tag) == [peer_id |-> clock_tag.peer_id, clock_id |-> clock_tag.clock_id]

\* Option<T>
None == [some |-> FALSE]

Some(v) == [some |-> TRUE, v |-> v]

\* MutableInvertedIndex::default()
MutableDefault ==
    [variant |-> "Mutable", postings |-> << >>, vocab |-> << >>,
     point_to_docs |-> << >>, points_count |-> 0]

\* ImmutableInvertedIndex::default()
ImmutableDefault ==
    [variant |-> "Immutable", postings |-> << >>, vocab |-> << >>,
     point_documents_tokens |-> << >>, points_count |-> 0]

\* InvertedIndex::new(is_appendable)
new(is_appendable) == IF is_appendable THEN MutableDefault ELSE ImmutableDefault

\* No call of build_index is in progress.
NoBuild == [pc |-> "idle"]

\* PostingList::default(), with nothing compressed or iterated yet.
NoPosting == [list |-> << >>, ids |-> {}, compressed |-> None, items |-> None]

\* Nothing recorded yet about the calls made on the index.
NoHist == [paired |-> TRUE, issued |-> {}]


VARIABLES
    clocks,     \* ClockMap.clocks: Key -> current_tick, a partial map
    last,       \* the last call made on the API: its input and what it returned
    inflight,   \* the calls of Clock::advance_to that ran fetch_max and have not
                \* returned yet, one per thread: a bag of their locals
    seen,       \* per key: the largest clock_tick of any tag seen for it (-1: none)
    rp,         \* a RecoveryPoint held by the caller: Key -> tick
    fsDest,     \* the file system entry at the path given to store / load
    fsTmp,      \* the temporary file of the store in progress
    st,         \* the store in progress or last made: its position, what the path
                \* held when it began, what it writes, whether it renamed
    index,      \* the InvertedIndex: its variant and that variant's fields
    build,      \* the build_index call in progress: its local index, or NoBuild
    plist,      \* a PostingList on its own: its list, the ids inserted and not
                \* removed, the CompressedPostingList made of it and what
                \* iterating that one yielded
    hist        \* history of the index: whether every index_document found its
                \* point without a document, and every (token string, id) pair
                \* document_from_tokens has returned

vars == <<clocks, last, inflight, seen, rp, fsDest, fsTmp, st, index, build, hist, plist>>

\* ------------------------------------------------------------------ Clock

\* AtomicU64::fetch_max: the value the atomic holds afterwards.
fetch_store(current, new_tick) == new_tick

fetch_max(current, new_tick) == Max(current, new_tick)

\* Clock::advance_to: the value left in the atomic and the pair returned.
\* The update status is computed (old_tick < new_tick) and then dropped:
\* the function returns (true, current_tick).
advance_to(old_tick, new_tick) ==
    [ stored  |-> fetch_max(old_tick, new_tick),
      updated |-> TRUE,
      current |-> Max(old_tick, new_tick) ]

\* An advance that starts the map afresh for a key it does not track.
advance_clock_impl_fresh_map(m, clock_tag) ==
    LET key == from_tag(clock_tag)
        new_tick == clock_tag.clock_tick
    IN  IF key \in DOMAIN m
        THEN [ clocks |-> [m EXCEPT ![key] = Max(m[key], new_tick)],
               updated |-> TRUE, current |-> Max(m[key], new_tick) ]
        ELSE [ clocks |-> MapInsert(EmptyMap, key, new_tick),
               updated |-> TRUE, current |-> new_tick ]

\* ClockMap::advance_clock_impl: the map afterwards and the pair returned.
advance_clock_impl(m, clock_tag) ==
    LET key == from_tag(clock_tag)
        new_tick == clock_tag.clock_tick
    IN  IF key \in DOMAIN m
        THEN LET r == advance_to(m[key], new_tick)
             IN  [ clocks |-> [m EXCEPT ![key] = r.stored],
                   updated |-> r.updated, current |-> r.current ]
        ELSE [ clocks |-> MapInsert(m, key, new_tick),
               updated |-> TRUE, current |-> new_tick ]

\* let _operation_accepted = clock_updated || clock_tag.clock_tick == 0 || clock_tag.force
operation_accepted(clock_updated, clock_tag) ==
    clock_updated \/ clock_tag.clock_tick = 0 \/ clock_tag.force

update_tag_ignoring_force(clock_updated, clock_tag) ==
    ~clock_updated \/ clock_tag.clock_tick = 0

update_tag_ignoring_zero(clock_updated, clock_tag) ==
    ~clock_updated /\ ~clock_tag.force

\* let update_tag = (!clock_updated || clock_tag.clock_tick == 0) && !clock_tag.force
update_tag(clock_updated, clock_tag) ==
    (~clock_updated \/ clock_tag.clock_tick = 0) /\ ~clock_tag.force

accept_status_when_not_corrected(accepted, corrected) == accepted /\ ~corrected

\* The value advance_clock_and_correct_tag returns: the literal true, whatever
\* _operation_accepted and update_tag are.
accept_status(accepted, corrected) == TRUE

\* ClockMap::advance_clock_and_correct_tag: the map afterwards, the tag as the
\* caller finds it afterwards (it is passed by mutable reference) and the
\* value returned.
advance_clock_and_correct_tag(m, clock_tag) ==
    LET r == advance_clock_impl(m, clock_tag)
        acc == operation_accepted(r.updated, clock_tag)
        upd == update_tag(r.updated, clock_tag)
    IN  [ clocks |-> r.clocks,
          tag |-> IF upd THEN [clock_tag EXCEPT !.clock_tick = r.current]
                         ELSE clock_tag,
          ret |-> accept_status(acc, upd) ]

\* ------------------------------------------------------------------ state

NoCall == [op |-> "none"]

\* No thread holds a shared reference to a clock: &mut self can be taken.
Idle == inflight = EmptyBag

\* What the path given to store / load can be in the file system.
Absent == [kind |-> "absent"]

\* A regular file that can be opened and read; its content is a sequence of
\* JSON tokens.
File(bytes) == [kind |-> "file", bytes |-> bytes]

\* An entry fs::File::open refuses with an error other than NotFound.
Denied == [kind |-> "denied"]

\* An entry that opens but fails when read (a directory, a failing device).
Unreadable == [kind |-> "unreadable"]

\* What serde_json::to_writer has produced: nothing yet.
NoOutput == [ok |-> FALSE, bytes |-> << >>]

NoStore == [pc |-> "idle", old |-> Absent, out |-> NoOutput, committed |-> FALSE]

Init ==
    /\ clocks = EmptyMap
    /\ last = NoCall
    /\ inflight = EmptyBag
    /\ seen = [k \in Keys |-> -1]
    /\ rp = EmptyMap
    /\ fsDest = Absent
    /\ fsTmp = Absent
    /\ st = NoStore
    /\ index = new(TRUE)
    /\ build = NoBuild
    /\ hist = NoHist
    /\ plist = NoPosting

\* ------------------------------------------------------------------ actions

\* ClockMap::advance_clock(&mut self, &tag)
AdvanceClock(clock_tag) ==
    /\ Idle
    /\ st.pc = "idle"
    /\ clocks' = advance_clock_impl(clocks, clock_tag).clocks
    /\ seen' = [seen EXCEPT ![from_tag(clock_tag)] = Max(@, clock_tag.clock_tick)]
    /\ last' = [op |-> "advance_clock"]
    /\ UNCHANGED <<inflight, rp, fsDest, fsTmp, st, index, build, hist, plist>>

\* ClockMap::advance_clock_and_correct_tag(&mut self, &mut tag)
AdvanceClockAndCorrectTag(clock_tag) ==
    /\ Idle
    /\ st.pc = "idle"
    /\ LET r == advance_clock_and_correct_tag(clocks, clock_tag)
       IN  /\ clocks' = r.clocks
           /\ last' = [op |-> "advance_clock_and_correct_tag", tag |-> clock_tag,
                       pre |-> clocks, out |-> r.tag, ret |-> r.ret,
                       updated |-> advance_clock_impl(clocks, clock_tag).updated,
                       current |-> advance_clock_impl(clocks, clock_tag).current]
    /\ seen' = [seen EXCEPT ![from_tag(clock_tag)] = Max(@, clock_tag.clock_tick)]
    /\ UNCHANGED <<inflight, rp, fsDest, fsTmp, st, index, build, hist, plist>>

Next ==
    \/ \E tag \in ClockTags : AdvanceClock(tag)
    \/ \E tag \in ClockTags : AdvanceClockAndCorrectTag(tag)

Spec == Init /\ [][Next]_vars

\* ------------------------------------------------ claims on tag correction

TagKey == from_tag(last.tag)

CorrectTagReturned == last.op = "advance_clock_and_correct_tag"

\* C2: a tag without force whose non-zero clock_tick is older than the tick
\* tracked for its key comes back with clock_tick overwritten by the key's
\* current tick.
C2_StaleTagOverwritten ==
    ( /\ CorrectTagReturned
      /\ ~last.tag.force
      /\ last.tag.clock_tick # 0
      /\ TagKey \in DOMAIN last.pre
      /\ last.tag.clock_tick < last.pre[TagKey] )
    => last.out.clock_tick = clocks[TagKey]

C5_AlwaysAccepted == CorrectTagReturned => last.ret = TRUE

C5_Witness ==
    /\ CorrectTagReturned
    /\ ~last.tag.force
    /\ last.tag.clock_tick # 0
    /\ TagKey \in DOMAIN last.pre
    /\ last.tag.clock_tick < last.pre[TagKey]
    /\ last.ret = TRUE

\* -------------------------------------------- concurrent Clock::advance_to

\* Clock::advance_to(&self, new_tick), line 177: a thread holding a shared
\* reference to the clock of `key` runs the atomic fetch_max and keeps the
\* old tick in a local.
AdvanceToFetchMax(key, new_tick) ==
    /\ st.pc = "idle"
    /\ BagCardinality(inflight) < NumThreads
    /\ key \in DOMAIN clocks
    /\ clocks' = [clocks EXCEPT ![key] = advance_to(clocks[key], new_tick).stored]
    /\ inflight' = inflight (+) SetToBag({[key |-> key, new_tick |-> new_tick,
                                           old_tick |-> clocks[key]]})
    /\ seen' = [seen EXCEPT ![key] = Max(@, new_tick)]
    /\ last' = [op |-> "advance_to"]
    /\ UNCHANGED <<rp, fsDest, fsTmp, st, index, build, hist, plist>>

\* Clock::advance_to, lines 179-184: a thread computes the pair it returns
\* from its locals and returns, giving up its reference.
AdvanceToReturn(call) ==
    /\ BagIn(call, inflight)
    /\ inflight' = inflight (-) SetToBag({call})
    /\ UNCHANGED <<clocks, last, seen, rp, fsDest, fsTmp, st, index, build, hist, plist>>

NextConc ==
    \/ \E tag \in ClockTags : AdvanceClock(tag)
    \/ \E k \in Keys, n \in Ticks : AdvanceToFetchMax(k, n)
    \/ \E call \in BagToSet(inflight) : AdvanceToReturn(call)

SpecConc == Init /\ [][NextConc]_vars

\* C1: under any interleaving of advances, the tick of a key never decreases
\* from one step to the next (and the key stays in the map), and whenever no
\* call is in flight it is the largest clock_tick of the tags seen for the key.
C1_Monotone ==
    /\ [][\A k \in DOMAIN clocks : k \in DOMAIN clocks' /\ clocks'[k] >= clocks[k]]_vars
    /\ [](Idle => /\ \A k \in DOMAIN clocks : clocks[k] = seen[k]
                  /\ \A k \in Keys \ DOMAIN clocks : seen[k] = -1)

\* Two threads are inside advance_to on the same key; the later one brought
\* an older tick than the one the clock already held.
C1_Witness ==
    \E c1, c2 \in BagToSet(inflight) :
        /\ c1.key = c2.key
        /\ c1.new_tick = MaxTick
        /\ c1.old_tick < MaxTick
        /\ c2.old_tick = MaxTick
        /\ c2.new_tick < MaxTick
        /\ c2.new_tick > 0
        /\ clocks[c1.key] = MaxTick
        /\ seen[c1.key] = MaxTick

\* ---------------------------------------------------------- RecoveryPoint

\* Every value a ClockMap or a RecoveryPoint can hold within the bounds.
ClockMaps == UNION { [K -> Ticks] : K \in SUBSET Keys }

\* A snapshot that leaves out the clocks still at tick 0.
to_recovery_point_started(m) == [k \in { j \in DOMAIN m : m[j] > 0 } |-> m[k]]

\* ClockMap::to_recovery_point: each key with the tick loaded from its clock.
to_recovery_point(m) == [k \in DOMAIN m |-> m[k]]

extend_overwriting(point, m) ==
    [k \in (DOMAIN point) \cup (DOMAIN m) |-> IF k \in DOMAIN m THEN m[k] ELSE point[k]]

\* RecoveryPoint::extend_with_missing_clocks: entry(key).or_insert_with(tick)
\* for every clock of the map.
extend_with_missing_clocks(point, m) ==
    [k \in (DOMAIN point) \cup (DOMAIN m) |-> IF k \in DOMAIN point THEN point[k] ELSE m[k]]

\* ClockMap::to_recovery_point(&self)
ToRecoveryPoint ==
    /\ st.pc = "idle"
    /\ rp' = to_recovery_point(clocks)
    /\ last' = [op |-> "to_recovery_point", pre |-> clocks]
    /\ UNCHANGED <<clocks, inflight, seen, fsDest, fsTmp, st, index, build, hist, plist>>

\* From<api::grpc::qdrant::RecoveryPoint> for RecoveryPoint: a recovery point
\* received from another peer, given as clock tags of distinct keys.
RecoveryPointFromRpc(point) ==
    /\ rp' = point
    /\ last' = [op |-> "recovery_point_from_rpc"]
    /\ UNCHANGED <<clocks, inflight, seen, fsDest, fsTmp, st, index, build, hist, plist>>

\* RecoveryPoint::extend_with_missing_clocks(&mut self, &clock_map)
ExtendWithMissingClocks ==
    /\ st.pc = "idle"
    /\ rp' = extend_with_missing_clocks(rp, clocks)
    /\ last' = [op |-> "extend_with_missing_clocks", pre |-> clocks, preRp |-> rp]
    /\ UNCHANGED <<clocks, inflight, seen, fsDest, fsTmp, st, index, build, hist, plist>>

NextRecovery ==
    \/ \E tag \in ClockTags : AdvanceClock(tag)
    \/ ToRecoveryPoint
    \/ \E point \in ClockMaps : RecoveryPointFromRpc(point)
    \/ ExtendWithMissingClocks

SpecRecovery == Init /\ [][NextRecovery]_vars

\* C10: extend_with_missing_clocks adds every key of the clock map that the
\* recovery point lacks, with the clock's current tick, keeps the tick of
\* every key the recovery point already had, whatever the clock map holds
\* for it, and leaves the clock map as it was.
C10_ExtendKeepsExisting ==
    last.op = "extend_with_missing_clocks"
    => /\ DOMAIN rp = (DOMAIN last.preRp) \cup (DOMAIN clocks)
       /\ \A k \in DOMAIN last.preRp : rp[k] = last.preRp[k]
       /\ \A k \in (DOMAIN clocks) \ (DOMAIN last.preRp) : rp[k] = clocks[k]
       /\ clocks = last.pre

\* The recovery point held one key with a smaller tick than the clock map,
\* and lacked another key of the clock map.
C10_Witness ==
    /\ last.op = "extend_with_missing_clocks"
    /\ \E k1, k2 \in DOMAIN clocks :
        /\ k1 \in DOMAIN last.preRp
        /\ k2 \notin DOMAIN last.preRp
        /\ last.preRp[k1] < clocks[k1]
        /\ rp[k1] = last.preRp[k1]
        /\ rp[k2] = clocks[k2]
        /\ clocks[k2] > 0

\* ------------------------------------------------------------ persistence

\* Results of load / load_or_default / store.
Ok(m) == [tag |-> "Ok", map |-> m]

\* Error::Io(err), with err.kind()
ErrIo(kind) == [tag |-> "Io", kind |-> kind]

\* Error::SerdeJson(err), with the category of err
ErrSerdeJson(category) == [tag |-> "SerdeJson", category |-> category]

\* serde_json::to_writer(&mut writer, &self), line 43.  ClockMap is
\* #[serde(transparent)] over HashMap<Key, Clock> and Key derives Serialize
\* as a struct.  serde_json writes "{" and "}" for an empty map; for a map
\* with entries it writes "{" and then refuses the first key, because a JSON
\* object key must be a string and a struct is none ("key must be a
\* string").  ok: whether the call returned Ok; bytes: what reached the
\* writer.
to_writer(m) ==
    IF DOMAIN m = {}
    THEN [ok |-> TRUE,  bytes |-> <<"{", "}">>]
    ELSE [ok |-> FALSE, bytes |-> <<"{">>]

\* serde_json::from_reader into ClockMap, line 34.  "{" "}" is the empty
\* map.  An object with entries is refused, since its keys are strings and
\* Key deserializes from a struct; anything else is no JSON object.
from_reader(bytes) ==
    IF bytes = <<"{", "}">> THEN Ok(EmptyMap)
    ELSE IF Len(bytes) >= 3 /\ bytes[1] = "{" /\ bytes[Len(bytes)] = "}"
         THEN ErrSerdeJson("data")
         ELSE IF bytes = << >> \/ bytes[Len(bytes)] # "}"
              THEN ErrSerdeJson("eof")
              ELSE ErrSerdeJson("syntax")

\* ClockMap::load: fs::File::open(path)? turns an error of open into
\* Error::Io; serde_json::from_reader(..)? turns every error of reading and
\* parsing, an I/O error of the read included, into Error::SerdeJson.
load(entry) ==
    CASE entry.kind = "absent"     -> ErrIo("NotFound")
      [] entry.kind = "denied"     -> ErrIo("PermissionDenied")
      [] entry.kind = "unreadable" -> ErrSerdeJson("io")
      [] entry.kind = "file"       -> from_reader(entry.bytes)

load_or_default_on_any_io_error(entry) ==
    LET result == load(entry)
    IN  IF result.tag = "Io" THEN Ok(EmptyMap) ELSE result

\* ClockMap::load_or_default
load_or_default(entry) ==
    LET result == load(entry)
    IN  IF result.tag = "Io" /\ result.kind = "NotFound"
        THEN Ok(EmptyMap)
        ELSE result

write_in_place(dest, tmp, token) ==
    [dest |-> File(tmp.bytes \o <<token>>), tmp |-> File(tmp.bytes \o <<token>>)]

\* atomicwrites::AtomicFile::write, lines 39-47: what the closure writes goes
\* to a temporary file in the directory of the path; the path itself is not
\* touched.
write_to_tmpfile(dest, tmp, token) ==
    [dest |-> dest, tmp |-> File(tmp.bytes \o <<token>>)]

\* What the path can hold when the process starts: nothing, a file written
\* by an earlier store, truncated or foreign content, an entry that cannot
\* be opened, an entry that cannot be read.
InitialFiles ==
    { Absent, Denied, Unreadable,
      File(<<"{", "}">>), File(<<"{">>), File(<< >>),
      File(<<"{", "\"k\":{\"current_tick\":1}", "}">>) }

InitPersist ==
    /\ clocks = EmptyMap
    /\ last = NoCall
    /\ inflight = EmptyBag
    /\ seen = [k \in Keys |-> -1]
    /\ rp = EmptyMap
    /\ fsDest \in InitialFiles
    /\ fsTmp = Absent
    /\ st = [NoStore EXCEPT !.old = fsDest]
    /\ index = new(TRUE)
    /\ build = NoBuild
    /\ hist = NoHist
    /\ plist = NoPosting

\* ClockMap::store, lines 39-41: AtomicFile::write creates the temporary
\* file and calls the closure, which serializes self.
StoreBegin ==
    /\ Idle
    /\ st.pc = "idle"
    /\ st' = [pc |-> "writing", old |-> fsDest, out |-> to_writer(clocks),
              committed |-> FALSE]
    /\ fsTmp' = File(<< >>)
    /\ last' = [op |-> "store", ret |-> [tag |-> "pending"], map |-> clocks]
    /\ UNCHANGED <<clocks, inflight, seen, rp, fsDest, index, build, hist, plist>>

\* lines 42-44: the next piece of the serialized map reaches the file.
StoreWrite ==
    /\ st.pc = "writing"
    /\ Len(fsTmp.bytes) < Len(st.out.bytes)
    /\ LET w == write_to_tmpfile(fsDest, fsTmp, st.out.bytes[Len(fsTmp.bytes) + 1])
       IN  /\ fsDest' = w.dest
           /\ fsTmp' = w.tmp
    /\ UNCHANGED <<clocks, last, inflight, seen, rp, st, index, build, hist, plist>>

\* lines 46-49: the closure returned Ok; AtomicFile::write syncs the
\* temporary file and renames it over the path (AllowOverwrite).  Renaming
\* over an "unreadable" entry (a directory) fails: see StoreIoError.
StoreCommit ==
    /\ st.pc = "writing"
    /\ st.out.ok
    /\ fsTmp.bytes = st.out.bytes
    /\ fsDest.kind # "unreadable"
    /\ fsDest' = File(fsTmp.bytes)
    /\ fsTmp' = Absent
    /\ st' = [st EXCEPT !.pc = "idle", !.committed = TRUE]
    /\ last' = [last EXCEPT !.ret = Ok(clocks)]
    /\ UNCHANGED <<clocks, inflight, seen, rp, index, build, hist, plist>>

\* line 43: serde_json::to_writer returned an error; the closure returns it
\* (atomicwrites::Error::User -> Error::SerdeJson), the temporary file is
\* removed and the path is left alone.
StoreSerdeError ==
    /\ st.pc = "writing"
    /\ ~st.out.ok
    /\ fsTmp.bytes = st.out.bytes
    /\ fsTmp' = Absent
    /\ st' = [st EXCEPT !.pc = "idle"]
    /\ last' = [last EXCEPT !.ret = ErrSerdeJson("key must be a string")]
    /\ UNCHANGED <<clocks, inflight, seen, rp, fsDest, index, build, hist, plist>>

\* An I/O error of the write, the flush, the sync or the rename
\* (atomicwrites::Error::Internal, or the closure's Error::Io): the
\* temporary file is removed and the path is left alone.
StoreIoError ==
    /\ st.pc = "writing"
    /\ fsTmp' = Absent
    /\ st' = [st EXCEPT !.pc = "idle"]
    /\ last' = [last EXCEPT !.ret = ErrIo("Other")]
    /\ UNCHANGED <<clocks, inflight, seen, rp, fsDest, index, build, hist, plist>>

\* The process dies and is started again with an empty ClockMap; what is in
\* the file system stays, a temporary file of a store in progress included.
Crash ==
    /\ clocks' = EmptyMap
    /\ inflight' = EmptyBag
    /\ seen' = [k \in Keys |-> -1]
    /\ st' = [st EXCEPT !.pc = "idle"]
    /\ last' = [op |-> "crash", at |-> st.pc]
    /\ UNCHANGED <<rp, fsDest, fsTmp, index, build, hist, plist>>

\* ClockMap::load(path), the caller replacing its clock map by the result.
Load ==
    /\ Idle
    /\ st.pc = "idle"
    /\ LET result == load(fsDest)
       IN  /\ clocks' = IF result.tag = "Ok" THEN result.map ELSE clocks
           /\ last' = [op |-> "load", ret |-> result, pre |-> clocks]
    /\ UNCHANGED <<inflight, seen, rp, fsDest, fsTmp, st, index, build, hist, plist>>

\* ClockMap::load_or_default(path), the caller replacing its clock map by
\* the result.
LoadOrDefault ==
    /\ Idle
    /\ st.pc = "idle"
    /\ LET result == load_or_default(fsDest)
       IN  /\ clocks' = IF result.tag = "Ok" THEN result.map ELSE clocks
           /\ last' = [op |-> "load_or_default", ret |-> result, pre |-> clocks]
    /\ UNCHANGED <<inflight, seen, rp, fsDest, fsTmp, st, index, build, hist, plist>>

NextPersist ==
    \/ \E tag \in ClockTags : AdvanceClock(tag)
    \/ StoreBegin
    \/ StoreWrite
    \/ StoreCommit
    \/ StoreSerdeError
    \/ StoreIoError
    \/ Crash
    \/ Load
    \/ LoadOrDefault

SpecPersist == InitPersist /\ [][NextPersist]_vars

\* ------------------------------------------------- claims on persistence

\* No key is dropped and no tick decreases in this step.
TicksKept == \A k \in DOMAIN clocks : k \in DOMAIN clocks' /\ clocks'[k] >= clocks[k]

IsReload(call) == call.op \in {"load", "load_or_default"}

\* The last store returned Ok and the path holds its complete output.
HoldsStoredMap == st.committed /\ fsDest = File(st.out.bytes)

\* C6 as stated: across advance, store and reload (every step of the running
\* process, that is every step but a crash; a reload being one of a file
\* that store wrote) no tick decreases and no key is dropped.
C6_NeverDecreases ==
    [][(last'.op # "crash" /\ (IsReload(last') => HoldsStoredMap)) => TicksKept]_vars

\* C6 amended: across advance and store no tick decreases and no key is
\* dropped; a reload that succeeds replaces the map by what the file holds
\* (the empty map when load_or_default finds no file), whatever the ticks
\* were before, and a reload that fails leaves the map as it was.
C6_NeverDecreasesButReload ==
    /\ [][(last'.op # "crash" /\ ~IsReload(last')) => TicksKept]_vars
    /\ [][IsReload(last') =>
            \/ /\ last'.ret.tag = "Ok"
               /\ clocks' = last'.ret.map
               /\ fsDest.kind = "file" => to_writer(clocks') = [ok |-> TRUE, bytes |-> fsDest.bytes]
               /\ fsDest.kind # "file" => (fsDest.kind = "absent" /\ clocks' = EmptyMap)
            \/ /\ last'.ret.tag # "Ok"
               /\ clocks' = clocks]_vars

\* The map was stored, a clock advanced afterwards, and the reload of the
\* stored file lost it.
C6_Witness ==
    /\ last.op = "load_or_default"
    /\ last.ret.tag = "Ok"
    /\ HoldsStoredMap
    /\ \E k \in DOMAIN last.pre : last.pre[k] = MaxTick /\ k \notin DOMAIN clocks

StoreReturned == last.op = "store" /\ last.ret.tag # "pending"

\* C7: store succeeds for every clock map (unless the file system fails) and
\* a load of the path then returns a map with the same keys and ticks.
C7_StoreLoadRoundTrip ==
    (StoreReturned /\ last.ret.tag # "Io")
    => /\ last.ret.tag = "Ok"
       /\ load(fsDest) = Ok(last.map)

\* C8: during a store, after a store that returned an error and after a
\* crash at any point of it, the path holds what it held when the store
\* began or the complete serialization of the map, and load gives what it
\* gave before or the map stored.
C8_StoreCrashAtomic ==
    \/ fsDest = st.old
    \/ /\ st.out.ok
       /\ fsDest = File(st.out.bytes)
       /\ \E m \in ClockMaps : to_writer(m) = st.out /\ load(fsDest) = Ok(m)

\* The process died while the temporary file held part of the output; the
\* path still holds the earlier file.
C8_Witness ==
    /\ last.op = "crash"
    /\ last.at = "writing"
    /\ fsTmp = File(<<"{">>)
    /\ st.old = File(<<"{", "}">>)
    /\ fsDest = st.old

\* C9 as stated: no file gives Ok with the empty map, a file that is not a
\* clock map gives SerdeJson, and every I/O error but NotFound comes back
\* as Error::Io.
C9_LoadOrDefaultIoUnchanged ==
    last.op = "load_or_default"
    => /\ fsDest.kind = "absent" => last.ret = Ok(EmptyMap)
       /\ fsDest.kind = "file" =>
            \/ last.ret.tag = "SerdeJson"
            \/ last.ret.tag = "Ok" /\ to_writer(last.ret.map).bytes = fsDest.bytes
       /\ fsDest.kind \in {"denied", "unreadable"} => last.ret.tag = "Io"

\* C9 amended: no file gives Ok with the empty map; a file that is not a
\* clock map gives SerdeJson, and so does an I/O error raised while the
\* opened file is read; an error of opening the file other than NotFound
\* comes back unchanged as Error::Io.
C9_LoadOrDefault ==
    last.op = "load_or_default"
    => /\ fsDest.kind = "absent" => last.ret = Ok(EmptyMap)
       /\ fsDest.kind = "file" =>
            \/ last.ret.tag = "SerdeJson"
            \/ last.ret.tag = "Ok" /\ to_writer(last.ret.map).bytes = fsDest.bytes
       /\ fsDest.kind = "file" /\ fsDest.bytes \in {<< >>, <<"{">>} => last.ret.tag = "SerdeJson"
       /\ fsDest.kind = "denied" => last.ret = ErrIo("PermissionDenied")
       /\ fsDest.kind = "unreadable" => last.ret.tag = "SerdeJson"

\* load_or_default met an entry that cannot be opened and handed the error on.
C9_Witness ==
    /\ last.op = "load_or_default"
    /\ fsDest.kind = "denied"
    /\ last.ret = ErrIo("PermissionDenied")
    /\ clocks = last.pre

\* ================================================================== index
\* The inverted index of the full-text field index.

\* Token strings, numbered in their lexicographic order (the order in which a
\* BTreeSet<String> is walked).
Words == 1..NumWords

\* Point ids (PointOffsetType).
Points == 0..MaxPoint

\* The smallest element of a non-empty set of integers.
Least(S) == CHOOSE x \in S : \A y \in S : x <= y

\* The elements of a sequence.
Elems(s) == { s[i] : i \in 1..Len(s) }

\* Vec::resize_with(n, Default::default) when the vector is shorter than n.
Grow(v, n) == IF Len(v) >= n THEN v ELSE v \o [i \in 1..(n - Len(v)) |-> None]

\* ------------------------------------------------------------ PostingList
\* PostingList { list: Vec<PointOffsetType> }, kept sorted.

\* PostingList::new(idx)
posting_new(idx) == <<idx>>

\* Where binary_search stops in a sorted list: the number of elements below idx.
search_pos(list, idx) == Cardinality({ i \in 1..Len(list) : list[i] < idx })

\* An insert that appends the id it does not find.
posting_push(list, idx) == IF idx \in Elems(list) THEN list ELSE Append(list, idx)

\* PostingList::insert: nothing when found, else insert at the search position.
posting_insert(list, idx) ==
    IF idx \in Elems(list)
    THEN list
    ELSE LET pos == search_pos(list, idx)
         IN  SubSeq(list, 1, pos) \o <<idx>> \o SubSeq(list, pos + 1, Len(list))

\* PostingList::remove: remove at the found position, nothing when not found.
posting_remove(list, idx) ==
    IF idx \in Elems(list)
    THEN LET pos == search_pos(list, idx)
         IN  SubSeq(list, 1, pos) \o SubSeq(list, pos + 2, Len(list))
    ELSE list

\* PostingList::contains
posting_contains(list, idx) == idx \in Elems(list)

\* --------------------------------------------------------------- Document
\* Document { tokens: Vec<TokenId> }, sorted by Document::new.

RECURSIVE sort(_)
\* slice::sort: the same elements in ascending order.
sort(v) ==
    IF v = << >>
    THEN << >>
    ELSE LET i == CHOOSE i \in 1..Len(v) : \A j \in 1..Len(v) : v[i] <= v[j]
         IN  <<v[i]>> \o sort(SubSeq(v, 1, i - 1) \o SubSeq(v, i + 1, Len(v)))

\* Document::new
Document(tokens) == sort(tokens)

\* Document::check
check(document, token) == token \in Elems(document)

\* ------------------------------------------------------------- vocabulary
RECURSIVE intern(_, _, _)
\* The loop of document_from_tokens over the token strings in ascending
\* order: a known string gives its id, a new one gets vocab.len() and is
\* inserted.
intern(vocab, tokens, document_tokens) ==
    IF tokens = {}
    THEN [vocab |-> vocab, doc |-> Document(document_tokens)]
    ELSE LET token == Least(tokens)
             known == token \in DOMAIN vocab
             next_id == Cardinality(DOMAIN vocab)
             id == IF known THEN vocab[token] ELSE next_id
         IN  intern(IF known THEN vocab ELSE MapInsert(vocab, token, next_id),
                    tokens \ {token}, Append(document_tokens, id))

\* InvertedIndex::document_from_tokens: both variants hand out &mut vocab.
document_from_tokens(self, tokens) ==
    LET r == intern(self.vocab, tokens, << >>)
    IN  [self |-> [self EXCEPT !.vocab = r.vocab], doc |-> r.doc]

\* InvertedIndex::get_token
get_token(self, token) ==
    IF token \in DOMAIN self.vocab THEN Some(self.vocab[token]) ELSE None

\* --------------------------------------------------- MutableInvertedIndex
\* Slot t of a vector is element t + 1 of the sequence that models it.

\* A match that leaves an existing list as it is.
posting_add_only_new(posting, idx) ==
    IF posting.some THEN posting ELSE Some(posting_new(idx))

\* The match of index_document on one posting slot: an empty slot gets a new
\* list, a list gets the point inserted.
posting_add(posting, idx) ==
    IF posting.some THEN Some(posting_insert(posting.v, idx)) ELSE Some(posting_new(idx))

RECURSIVE add_to_postings(_, _, _)
\* The loop of index_document over document.tokens(): grow the table up to
\* the token's slot, then add the point to it.
add_to_postings(postings, tokens, idx) ==
    IF tokens = << >>
    THEN postings
    ELSE LET token == Head(tokens)
             grown == Grow(postings, token + 1)
         IN  add_to_postings([grown EXCEPT ![token + 1] = posting_add(@, idx)],
                             Tail(tokens), idx)

\* MutableInvertedIndex::index_document
mutable_index_document(self, idx, document) ==
    LET docs == Grow(self.point_to_docs, idx + 1)
    IN  [self EXCEPT !.points_count = @ + 1,
                     !.postings = add_to_postings(self.postings, document, idx),
                     !.point_to_docs = [docs EXCEPT ![idx + 1] = Some(document)]]

RECURSIVE remove_from_postings(_, _, _)
\* The loop of MutableInvertedIndex::remove_document over the removed
\* document's tokens; postings.get_mut(token).unwrap() panics on a token
\* beyond the table.
remove_from_postings(postings, tokens, idx) ==
    IF tokens = << >>
    THEN [panic |-> FALSE, postings |-> postings]
    ELSE LET token == Head(tokens)
         IN  IF token + 1 > Len(postings)
             THEN [panic |-> TRUE, postings |-> postings]
             ELSE LET posting == postings[token + 1]
                      erased == IF posting.some
                                THEN Some(posting_remove(posting.v, idx))
                                ELSE posting
                  IN  remove_from_postings([postings EXCEPT ![token + 1] = erased],
                                           Tail(tokens), idx)

\* A remove_document that forgets points_count.
mutable_remove_document_keeping_count(self, idx) ==
    IF Len(self.point_to_docs) <= idx \/ ~self.point_to_docs[idx + 1].some
    THEN [self |-> self, ret |-> FALSE, panic |-> FALSE]
    ELSE LET removed_doc == self.point_to_docs[idx + 1].v
             r == remove_from_postings(self.postings, removed_doc, idx)
         IN  [self |-> [self EXCEPT !.point_to_docs[idx + 1] = None,
                                    !.postings = r.postings],
              ret |-> TRUE, panic |-> r.panic]

\* A remove_document that forgets the posting lists.
mutable_remove_document_keeping_postings(self, idx) ==
    IF Len(self.point_to_docs) <= idx \/ ~self.point_to_docs[idx + 1].some
    THEN [self |-> self, ret |-> FALSE, panic |-> FALSE]
    ELSE [self |-> [self EXCEPT !.points_count = @ - 1,
                                !.point_to_docs[idx + 1] = None],
          ret |-> TRUE, panic |-> FALSE]

\* MutableInvertedIndex::remove_document
mutable_remove_document(self, idx) ==
    IF Len(self.point_to_docs) <= idx \/ ~self.point_to_docs[idx + 1].some
    THEN [self |-> self, ret |-> FALSE, panic |-> FALSE]
    ELSE LET removed_doc == self.point_to_docs[idx + 1].v
             r == remove_from_postings(self.postings, removed_doc, idx)
         IN  [self |-> [self EXCEPT !.points_count = @ - 1,
                                    !.point_to_docs[idx + 1] = None,
                                    !.postings = r.postings],
              ret |-> TRUE, panic |-> r.panic]

\* MutableInvertedIndex::get_doc
get_doc(self, idx) ==
    IF idx + 1 <= Len(self.point_to_docs) THEN self.point_to_docs[idx + 1] ELSE None

\* ParsedQuery::check_match: no unresolved token, and every token in the
\* document.
query_check_match(tokens, document) ==
    /\ \A i \in 1..Len(tokens) : tokens[i].some
    /\ \A i \in 1..Len(tokens) : check(document, tokens[i].v)

\* MutableInvertedIndex::check_match
mutable_check_match(self, parsed_query, point_id) ==
    LET doc == get_doc(self, point_id)
    IN  IF doc.some
        THEN [panic |-> FALSE, ret |-> query_check_match(parsed_query, doc.v)]
        ELSE [panic |-> FALSE, ret |-> FALSE]

\* ------------------------------------------------- ImmutableInvertedIndex

\* ImmutableInvertedIndex::values_is_empty
immutable_values_is_empty(self, point_id) ==
    \/ point_id + 1 > Len(self.point_documents_tokens)
    \/ ~self.point_documents_tokens[point_id + 1].some

\* ImmutableInvertedIndex::remove_document
immutable_remove_document(self, idx) ==
    IF immutable_values_is_empty(self, idx)
    THEN [self |-> self, ret |-> FALSE, panic |-> FALSE]
    ELSE [self |-> [self EXCEPT !.point_documents_tokens[idx + 1] = None,
                                !.points_count = @ - 1],
          ret |-> TRUE, panic |-> FALSE]

\* ImmutableInvertedIndex::check_match: self.postings[token as usize] panics
\* on a token beyond the table; all() stops at the first token that fails.
immutable_check_match(self, parsed_query, point_id) ==
    IF \E i \in 1..Len(parsed_query) : ~parsed_query[i].some
    THEN [panic |-> FALSE, ret |-> FALSE]
    ELSE IF immutable_values_is_empty(self, point_id)
    THEN [panic |-> FALSE, ret |-> FALSE]
    ELSE LET fails(i) == \/ parsed_query[i].v + 1 > Len(self.postings)
                         \/ ~self.postings[parsed_query[i].v + 1].some
                         \/ ~posting_contains(self.postings[parsed_query[i].v + 1].v,
                                              point_id)
             failing == { i \in 1..Len(parsed_query) : fails(i) }
         IN  IF failing = {}
             THEN [panic |-> FALSE, ret |-> TRUE]
             ELSE IF parsed_query[Least(failing)].v + 1 > Len(self.postings)
             THEN [panic |-> TRUE, ret |-> FALSE]
             ELSE [panic |-> FALSE, ret |-> FALSE]

\* From<MutableInvertedIndex> for ImmutableInvertedIndex: postings, vocab and
\* points_count move over, each document is replaced by its length.
from_mutable(index_) ==
    [variant |-> "Immutable",
     postings |-> index_.postings,
     vocab |-> index_.vocab,
     point_documents_tokens |->
         [i \in 1..Len(index_.point_to_docs) |->
             IF index_.point_to_docs[i].some
             THEN Some(Len(index_.point_to_docs[i].v))
             ELSE None],
     points_count |-> index_.points_count]

\* -------------------------------------------------- InvertedIndex facade
\* Ok(()) of an OperationResult<()>
OkUnit == [ok |-> TRUE]

\* OperationError::service_error(description)
service_error(description) == [ok |-> FALSE, description |-> description]

\* An index_document that takes the document whatever the variant.
index_document_any_variant(self, idx, document) ==
    [self |-> [self EXCEPT !.points_count = @ + 1,
                           !.postings = add_to_postings(self.postings, document, idx)],
     ret |-> OkUnit]

\* InvertedIndex::index_document
index_document(self, idx, document) ==
    IF self.variant = "Mutable"
    THEN [self |-> mutable_index_document(self, idx, document), ret |-> OkUnit]
    ELSE [self |-> self,
          ret |-> service_error("Can't add values to immutable text index")]

\* InvertedIndex::remove_document
remove_document(self, idx) ==
    IF self.variant = "Mutable"
    THEN mutable_remove_document(self, idx)
    ELSE immutable_remove_document(self, idx)

\* InvertedIndex::check_match
check_match(self, parsed_query, point_id) ==
    IF self.variant = "Mutable"
    THEN mutable_check_match(self, parsed_query, point_id)
    ELSE immutable_check_match(self, parsed_query, point_id)

RECURSIVE gather_postings(_, _, _)
\* The map / collect::<Option<Vec<_>>> of filter and estimate_cardinality,
\* token by token: it stops with None at the first unresolved token or empty
\* slot, and postings.get(idx).unwrap() panics on a token beyond the table.
gather_postings(index_postings, tokens, found) ==
    IF tokens = << >>
    THEN [panic |-> FALSE, postings_opt |-> Some(found)]
    ELSE LET token == Head(tokens)
         IN  IF ~token.some
             THEN [panic |-> FALSE, postings_opt |-> None]
             ELSE IF token.v + 1 > Len(index_postings)
             THEN [panic |-> TRUE, postings_opt |-> None]
             ELSE IF ~index_postings[token.v + 1].some
             THEN [panic |-> FALSE, postings_opt |-> None]
             ELSE gather_postings(index_postings, Tail(tokens),
                                  Append(found, index_postings[token.v + 1].v))

RECURSIVE intersect_postings_iterator(_)
\* postings_iterator::intersect_postings_iterator, the n-way intersection of
\* sorted lists: the candidate is the largest front; the lists whose front is
\* smaller advance; when all fronts agree the candidate is emitted and every
\* list advances; it ends when a list is exhausted.
intersect_postings_iterator(postings) ==
    IF \E i \in 1..Len(postings) : postings[i] = << >>
    THEN << >>
    ELSE LET fronts == { Head(postings[i]) : i \in 1..Len(postings) }
             candidate == CHOOSE x \in fronts : \A y \in fronts : y <= x
         IN  IF fronts = {candidate}
             THEN <<candidate>> \o intersect_postings_iterator(
                      [i \in 1..Len(postings) |-> Tail(postings[i])])
             ELSE intersect_postings_iterator(
                      [i \in 1..Len(postings) |->
                          IF Head(postings[i]) < candidate
                          THEN Tail(postings[i])
                          ELSE postings[i]])

\* A filter that leaves unresolved tokens and empty slots out of the
\* intersection.
filter_skipping_absent(self, query) ==
    LET present == SelectSeq(query, LAMBDA token :
                       /\ token.some
                       /\ token.v + 1 <= Len(self.postings)
                       /\ self.postings[token.v + 1].some)
        g == gather_postings(self.postings, present, << >>)
    IN  IF g.postings_opt.v = << >>
        THEN [panic |-> FALSE, items |-> << >>]
        ELSE [panic |-> FALSE, items |-> intersect_postings_iterator(g.postings_opt.v)]

\* InvertedIndex::filter; the iterator it returns is given by its items.
filter(self, query) ==
    LET g == gather_postings(self.postings, query, << >>)
    IN  IF g.panic
        THEN [panic |-> TRUE, items |-> << >>]
        ELSE IF ~g.postings_opt.some
        THEN [panic |-> FALSE, items |-> << >>]
        ELSE IF g.postings_opt.v = << >>
        THEN [panic |-> FALSE, items |-> << >>]
        ELSE [panic |-> FALSE, items |-> intersect_postings_iterator(g.postings_opt.v)]

RECURSIVE product(_)
\* The product of a sequence of numbers.
product(lens) == IF lens = << >> THEN 1 ELSE Head(lens) * product(Tail(lens))

RECURSIVE power(_, _)
power(b, n) == IF n = 0 THEN 1 ELSE b * power(b, n - 1)

\* The length of the largest posting.
largest_posting(lens) == CHOOSE x \in Elems(lens) : \A y \in Elems(lens) : y <= x

\* smallest_posting: postings.iter().map(|posting| posting.len()).min()
smallest_posting(lens) == Least(Elems(lens))

\* The expected count of the several-token branch,
\* (product of len / points_count) * points_count as usize, in exact
\* arithmetic; with points_count = 0 the f64 is NaN, which casts to 0.
expected_count(lens, points_count) ==
    IF points_count = 0
    THEN 0
    ELSE product(lens) \div power(points_count, Len(lens) - 1)

\* InvertedIndex::estimate_cardinality (primary_clauses left out)
estimate_cardinality(self, query) ==
    LET g == gather_postings(self.postings, query, << >>)
        lens == [i \in 1..Len(g.postings_opt.v) |-> Len(g.postings_opt.v[i])]
    IN  IF g.panic
        THEN [panic |-> TRUE, min |-> 0, exp |-> 0, max |-> 0]
        ELSE IF ~g.postings_opt.some
        THEN [panic |-> FALSE, min |-> 0, exp |-> 0, max |-> 0]
        ELSE IF g.postings_opt.v = << >>
        THEN [panic |-> FALSE, min |-> 0, exp |-> 0, max |-> 0]
        ELSE IF Len(g.postings_opt.v) = 1
        THEN [panic |-> FALSE, min |-> smallest_posting(lens),
              exp |-> smallest_posting(lens), max |-> smallest_posting(lens)]
        ELSE [panic |-> FALSE, min |-> 0,
              exp |-> expected_count(lens, self.points_count),
              max |-> smallest_posting(lens)]

\* ---------------------------------------------------------- index actions
clockVars == <<clocks, inflight, seen, rp, fsDest, fsTmp, st, plist>>

\* InvertedIndex::new(is_appendable), with the clock map left as constructed.
InitIndex ==
    /\ clocks = EmptyMap
    /\ last = NoCall
    /\ inflight = EmptyBag
    /\ seen = [k \in Keys |-> -1]
    /\ rp = EmptyMap
    /\ fsDest = Absent
    /\ fsTmp = Absent
    /\ st = NoStore
    /\ \E is_appendable \in BOOLEAN : index = new(is_appendable)
    /\ build = NoBuild
    /\ hist = NoHist
    /\ plist = NoPosting

\* The (token string, id) pairs a call of document_from_tokens hands out.
Issued(vocab, tokens) == { <<token, vocab[token]>> : token \in tokens }

\* InvertedIndex::document_from_tokens(&mut self, tokens)
DocumentFromTokens(tokens) ==
    /\ build.pc = "idle"
    /\ LET r == document_from_tokens(index, tokens)
       IN  /\ index' = r.self
           /\ last' = [op |-> "document_from_tokens", tokens |-> tokens, doc |-> r.doc]
           /\ hist' = [hist EXCEPT !.issued = @ \cup Issued(r.self.vocab, tokens)]
    /\ UNCHANGED <<clockVars, build>>

\* InvertedIndex::index_document(&mut self, idx, document), with the document
\* the caller has just made with document_from_tokens.
IndexDocument(idx) ==
    /\ build.pc = "idle"
    /\ last.op = "document_from_tokens"
    /\ index.points_count < MaxPointsCount
    /\ LET r == index_document(index, idx, last.doc)
       IN  /\ index' = r.self
           /\ last' = [op |-> "index_document", point |-> idx,
                       tokens |-> last.tokens, ret |-> r.ret]
           /\ hist' = [hist EXCEPT !.paired =
                          @ /\ (index.variant = "Mutable" => ~get_doc(index, idx).some)]
    /\ UNCHANGED <<clockVars, build>>

\* InvertedIndex::remove_document(&mut self, idx)
RemoveDocument(idx) ==
    /\ build.pc = "idle"
    /\ LET r == remove_document(index, idx)
       IN  /\ index' = r.self
           /\ last' = [op |-> "remove_document", point |-> idx,
                       removed |-> r.ret, panic |-> r.panic]
    /\ UNCHANGED <<clockVars, build, hist>>

\* InvertedIndex::build_index, line 260: the local index starts empty.  The
\* index as the call finds it is kept for comparison.
BuildBegin ==
    /\ build.pc = "idle"
    /\ build' = [pc |-> "loop", index |-> MutableDefault, paired |-> TRUE]
    /\ last' = [op |-> "build_index", ret |-> [pending |-> TRUE], pre |-> index]
    /\ UNCHANGED <<clockVars, index, hist>>

\* InvertedIndex::build_index, lines 261-265: the iterator gives Ok((idx,
\* tokens)); the document is made by self.document_from_tokens and indexed
\* into the local index.
BuildItem(idx, tokens) ==
    /\ build.pc = "loop"
    /\ build.index.points_count < MaxPointsCount
    /\ LET r == document_from_tokens(index, tokens)
       IN  /\ index' = r.self
           /\ hist' = [hist EXCEPT !.issued = @ \cup Issued(r.self.vocab, tokens)]
           /\ build' = [pc |-> "loop",
                        index |-> mutable_index_document(build.index, idx, r.doc),
                        paired |-> build.paired /\ ~get_doc(build.index, idx).some]
    /\ UNCHANGED <<clockVars, last>>

\* InvertedIndex::build_index, line 262: the iterator gives Err and `?`
\* returns it; the local index is dropped.
BuildErr ==
    /\ build.pc = "loop"
    /\ build' = NoBuild
    /\ last' = [op |-> "build_index", ret |-> service_error("iterator"),
                pre |-> last.pre]
    /\ UNCHANGED <<clockVars, index, hist>>

\* InvertedIndex::build_index, lines 267-276: the iterator is exhausted and
\* the local index replaces the one behind self.
BuildEnd ==
    /\ build.pc = "loop"
    /\ index' = IF index.variant = "Mutable"
                THEN build.index
                ELSE from_mutable(build.index)
    /\ hist' = [hist EXCEPT !.paired = build.paired]
    /\ build' = NoBuild
    /\ last' = [op |-> "build_index", ret |-> OkUnit]
    /\ UNCHANGED clockVars

NextIndex ==
    \/ \E tokens \in SUBSET Words : DocumentFromTokens(tokens)
    \/ \E idx \in Points : IndexDocument(idx)
    \/ \E idx \in Points : RemoveDocument(idx)
    \/ BuildBegin
    \/ \E idx \in Points, tokens \in SUBSET Words : BuildItem(idx, tokens)
    \/ BuildErr
    \/ BuildEnd

SpecIndex == InitIndex /\ [][NextIndex]_vars

\* No call is in progress on the index.
Quiet == build.pc = "idle"

\* ----------------------------------------------------------- index claims

\* The query texts: sequences of token strings up to MaxQueryLen.
QueryTexts == UNION { [1..n -> Words] : n \in 0..MaxQueryLen }

\* ParsedQuery { tokens }: each word of the text looked up with get_token,
\* None when the vocabulary does not have it.
parsed_query(self, text) == [i \in 1..Len(text) |-> get_token(self, text[i])]

\* The elements of a finite set of integers in ascending order.
RECURSIVE Ascending(_)
Ascending(S) == IF S = {} THEN << >> ELSE <<Least(S)>> \o Ascending(S \ {Least(S)})

\* The token is resolved and its slot of the postings table holds a list.
HasPosting(self, token) ==
    /\ token.some
    /\ token.v + 1 <= Len(self.postings)
    /\ self.postings[token.v + 1].some

\* The points of the token's posting list.
PostingOf(self, token) == Elems(self.postings[token.v + 1].v)

\* The points that are in the posting list of every token of the query.
InAllPostings(self, query) ==
    { p \in Points : \A i \in 1..Len(query) : p \in PostingOf(self, query[i]) }

Indexed ==
    /\ last.op = "index_document"
    /\ last.ret.ok
    /\ index.variant = "Mutable"

\* C12: on the mutable index, after index_document(p, document_from_tokens(
\* tokens)) has returned Ok, the query of the single token t yields, for each
\* t of tokens, a sequence that contains p.
C12_IndexedPointIsFound ==
    Indexed =>
        \A token \in last.tokens :
            LET f == filter(index, parsed_query(index, <<token>>))
            IN  ~f.panic /\ last.point \in Elems(f.items)

\* A document of two tokens was indexed, one of them into a posting list
\* that held another point already.
C12_Witness ==
    /\ Indexed
    /\ Cardinality(last.tokens) = 2
    /\ \E token \in last.tokens :
           Len(filter(index, parsed_query(index, <<token>>)).items) = 2

\* The point ids that hold a document in the mutable index.
Holding(self) == { p \in Points : get_doc(self, p).some }

\* C13: on the mutable index, as long as no point id was indexed while it
\* held a document, points_count is the number of point ids that hold a
\* document.
C13_CountIsDocuments ==
    (index.variant = "Mutable" /\ hist.paired) =>
        index.points_count = Cardinality(Holding(index))

\* Two points were indexed and one of them was removed again, pairs kept.
C13_Witness ==
    /\ index.variant = "Mutable"
    /\ hist.paired
    /\ last.op = "remove_document"
    /\ last.removed
    /\ index.points_count = 1
    /\ Len(index.point_to_docs) = 2

\* A document is stored at the point: a document in the mutable form, a
\* length in the immutable form.
HasDocument(self, idx) ==
    IF self.variant = "Mutable"
    THEN get_doc(self, idx).some
    ELSE ~immutable_values_is_empty(self, idx)

\* The point is in no posting list of the tokens of the document.
ErasedFrom(postings, document, idx) ==
    \A token \in Elems(document) :
        /\ token + 1 <= Len(postings)
        /\ postings[token + 1].some => idx \notin Elems(postings[token + 1].v)

\* C14: remove_document(p) returns true exactly when a document is stored at
\* p when it is called; when it returns true points_count is one less and, in
\* the mutable form, p is in no posting list of the removed document's
\* tokens; when it returns false the index is as it was.
C14_RemoveDocument ==
    [][last'.op = "remove_document" =>
          /\ ~last'.panic
          /\ last'.removed = HasDocument(index, last'.point)
          /\ last'.removed =>
                 /\ index'.points_count = index.points_count - 1
                 /\ ~HasDocument(index', last'.point)
                 /\ index.variant = "Mutable" =>
                        ErasedFrom(index'.postings,
                                   get_doc(index, last'.point).v, last'.point)
          /\ ~last'.removed => index' = index]_vars

\* remove_document returned true on the mutable index and left the posting
\* list of a token without points, while another point keeps its document.
C14_Witness ==
    /\ last.op = "remove_document"
    /\ last.removed
    /\ index.variant = "Mutable"
    /\ index.points_count = 1
    /\ \E i \in 1..Len(index.postings) : index.postings[i] = Some(<< >>)

\* C15: index_document on the Immutable variant returns a service error and
\* leaves the index (postings, per-point lengths, points_count and the rest)
\* as it was, so that every query answers as before.
C15_ImmutableRejectsIndexing ==
    [][(last'.op = "index_document" /\ index.variant = "Immutable") =>
          /\ ~last'.ret.ok
          /\ index' = index]_vars

\* index_document was refused by an immutable index that holds documents.
C15_Witness ==
    /\ last.op = "index_document"
    /\ ~last.ret.ok
    /\ index.variant = "Immutable"
    /\ index.points_count > 0
    /\ \E i \in 1..Len(index.postings) :
           index.postings[i].some /\ index.postings[i].v # << >>

\* C16: the immutable form made from a mutable index has its points_count and
\* its posting lists, and for every parsed query and every point that holds a
\* document, check_match on the immutable form, when it returns, returns
\* what check_match on the mutable form returns.
C16_ConversionAgrees ==
    (Quiet /\ index.variant = "Mutable") =>
        LET converted == from_mutable(index)
        IN  /\ converted.points_count = index.points_count
            /\ converted.postings = index.postings
            /\ \A text \in QueryTexts, point_id \in Holding(index) :
                   LET parsed == parsed_query(index, text)
                       m == mutable_check_match(index, parsed, point_id)
                       i == immutable_check_match(converted, parsed, point_id)
                   IN  ~i.panic => i.ret = m.ret

\* The lengths of the posting lists of the query's tokens.
PostingLens(self, query) ==
    { Len(self.postings[query[i].v + 1].v) : i \in 1..Len(query) }

C18_DocumentTokensKnown ==
    (Quiet /\ index.variant = "Mutable") =>
        \A idx \in Holding(index) :
            \A token \in Elems(get_doc(index, idx).v) :
                /\ \E word \in DOMAIN index.vocab : index.vocab[word] = token
                /\ token + 1 <= Len(index.postings)

\* C19: of the (string, id) pairs document_from_tokens has handed out, no
\* string has two ids, no id has two strings, and the ids are 0, 1, 2, ...
\* without a gap.
C19_TokenIdsStable ==
    /\ \A a \in hist.issued, b \in hist.issued : (a[1] = b[1]) <=> (a[2] = b[2])
    /\ { a[2] : a \in hist.issued } = 0..(Cardinality(hist.issued) - 1)

\* C20: a call of document_from_tokens, index_document or remove_document on
\* the Immutable variant leaves the vocabulary as it was (the queries take
\* &self and write nothing).
C20_ImmutableVocabularyFrozen ==
    [][(index.variant = "Immutable" /\ build.pc = "idle" /\ build'.pc = "idle") =>
          index'.vocab = index.vocab]_vars

\* ------------------------------------------- payload blocks, value counts

\* The key given to payload_blocks (PayloadKeyType); one key is enough, the
\* code only copies it into each block.
PayloadKey == "text_field"

\* The thresholds payload_blocks is asked with.
Thresholds == 0..(MaxPoint + 2)

\* PayloadBlockCondition: FieldCondition { key, match: Text(text) } and
\* cardinality.
PayloadBlockCondition(key, text, cardinality) ==
    [key |-> key, text |-> text, cardinality |-> cardinality]

\* A payload_blocks whose second filter is len() > threshold.
payload_blocks_above_threshold(self, threshold, key) ==
    IF \E token \in DOMAIN self.vocab : self.vocab[token] + 1 > Len(self.postings)
    THEN [panic |-> TRUE, blocks |-> {}]
    ELSE [panic |-> FALSE,
          blocks |->
              { PayloadBlockCondition(key, token,
                                      Len(self.postings[self.vocab[token] + 1].v)) :
                token \in { t \in DOMAIN self.vocab :
                              /\ self.postings[self.vocab[t] + 1].some
                              /\ Len(self.postings[self.vocab[t] + 1].v) > threshold } }]

\* InvertedIndex::payload_blocks, the iterator consumed to its end and given
\* by the set of its items (a HashMap has no order): postings[posting_idx]
\* panics on a vocabulary entry beyond the postings table.
payload_blocks(self, threshold, key) ==
    IF \E token \in DOMAIN self.vocab : self.vocab[token] + 1 > Len(self.postings)
    THEN [panic |-> TRUE, blocks |-> {}]
    ELSE [panic |-> FALSE,
          blocks |->
              { PayloadBlockCondition(key, token,
                                      Len(self.postings[self.vocab[token] + 1].v)) :
                token \in { t \in DOMAIN self.vocab :
                              /\ self.postings[self.vocab[t] + 1].some
                              /\ Len(self.postings[self.vocab[t] + 1].v) >= threshold } }]

\* MutableInvertedIndex::values_count
mutable_values_count(self, point_id) ==
    IF get_doc(self, point_id).some THEN Len(get_doc(self, point_id).v) ELSE 0

\* MutableInvertedIndex::values_is_empty
mutable_values_is_empty(self, point_id) ==
    IF get_doc(self, point_id).some THEN get_doc(self, point_id).v = << >> ELSE TRUE

\* ImmutableInvertedIndex::values_count
immutable_values_count(self, point_id) ==
    IF Len(self.point_documents_tokens) <= point_id
    THEN 0
    ELSE IF self.point_documents_tokens[point_id + 1].some
    THEN self.point_documents_tokens[point_id + 1].v
    ELSE 0

\* InvertedIndex::values_is_empty
values_is_empty(self, point_id) ==
    IF self.variant = "Mutable"
    THEN mutable_values_is_empty(self, point_id)
    ELSE immutable_values_is_empty(self, point_id)

\* InvertedIndex::values_count
values_count(self, point_id) ==
    IF self.variant = "Mutable"
    THEN mutable_values_count(self, point_id)
    ELSE immutable_values_count(self, point_id)

\* The point ids the read operations are asked about: the ids given to the
\* index and one beyond them.
AnyPoints == 0..(MaxPoint + 1)

\* C21: with no call in progress, filter, estimate_cardinality and
\* check_match return for every query parsed with get_token and every point
\* id, payload_blocks returns for every threshold, the last remove_document
\* returned; a point id beyond the tables counts no values, is empty and
\* matches nothing.
C21_OperationsTotal ==
    Quiet =>
        /\ \A text \in QueryTexts :
               LET query == parsed_query(index, text)
               IN  /\ ~filter(index, query).panic
                   /\ ~estimate_cardinality(index, query).panic
                   /\ \A point_id \in AnyPoints :
                          ~check_match(index, query, point_id).panic
        /\ \A threshold \in Thresholds :
               ~payload_blocks(index, threshold, PayloadKey).panic
        /\ last.op = "remove_document" => ~last.panic
        /\ values_count(index, MaxPoint + 1) = 0
        /\ values_is_empty(index, MaxPoint + 1)
        /\ \A text \in QueryTexts :
               ~check_match(index, parsed_query(index, text), MaxPoint + 1).ret

\* The blocks payload_blocks emits for the token string.
BlocksOf(blocks, text) == { b \in blocks : b.text = text }

RECURSIVE pow2(_)
pow2(n) == IF n = 0 THEN 1 ELSE 2 * pow2(n - 1)

RECURSIVE num_bits(_)
\* The number of bits of x: the least b with x < 2^b.
num_bits(x) == IF x = 0 THEN 0 ELSE 1 + num_bits(x \div 2)

\* The while loop of new: the last id is pushed until the length is a
\* multiple of BLOCK_LEN.
pad(list) ==
    list \o [i \in 1..((BLOCK_LEN - (Len(list) % BLOCK_LEN)) % BLOCK_LEN) |->
                list[Len(list)]]

\* slice::chunks_exact(BLOCK_LEN)
chunks_exact(list) ==
    [k \in 1..(Len(list) \div BLOCK_LEN) |->
        SubSeq(list, (k - 1) * BLOCK_LEN + 1, k * BLOCK_LEN)]

\* The differences a sorted block is packed as: each id minus the one before
\* it, the first minus the initial value.
deltas(initial, chunk) ==
    [i \in 1..Len(chunk) |-> chunk[i] - (IF i = 1 THEN initial ELSE chunk[i - 1])]

\* BitPacker::num_bits_sorted: the bits of the largest difference.
num_bits_sorted(initial, chunk) ==
    LET d == deltas(initial, chunk)
    IN  num_bits(CHOOSE x \in Elems(d) : \A y \in Elems(d) : y <= x)

\* BitPacker::compress_sorted into a buffer of chunk_size bytes: each
\* difference is written with chunk_bits bits.
compress_sorted(initial, chunk, chunk_size, chunk_bits) ==
    [size |-> chunk_size,
     packed |-> [i \in 1..Len(chunk) |-> deltas(initial, chunk)[i] % pow2(chunk_bits)]]

RECURSIVE running_sum(_, _)
\* The ids a sequence of differences stands for, from the initial value on.
\* The sums of the differences of a block of u32 ids are ids of the block or
\* below them, so they stay within u32.
running_sum(initial, packed) ==
    IF packed = << >>
    THEN << >>
    ELSE IF Len(packed) = 1
    THEN <<initial + packed[1]>>
    ELSE LET half == Len(packed) \div 2
             left == running_sum(initial, SubSeq(packed, 1, half))
         IN  left \o running_sum(left[half], SubSeq(packed, half + 1, Len(packed)))

\* BitPacker::decompress_sorted: the differences are read with chunk_bits
\* bits each and summed up.
decompress_sorted(initial, data, chunk_bits) ==
    running_sum(initial, [i \in 1..Len(data.packed) |-> data.packed[i] % pow2(chunk_bits)])

\* The body of the loop of new over one chunk, with its decompress check.
compress_chunk(chunk) ==
    LET offset == chunk[1]
        chunk_bits == num_bits_sorted(offset, chunk)
        chunk_size == (chunk_bits * BLOCK_LEN) \div 8
        data == compress_sorted(offset, chunk, chunk_size, chunk_bits)
        bits_again == (data.size * 8) \div BLOCK_LEN
    IN  [panic |-> decompress_sorted(offset, data, bits_again) # chunk,
         chunk |-> [offset |-> offset, data |-> data]]

\* slice::sort_unstable: the same elements in ascending order; a list that
\* is in order already is its own sorting.
sort_unstable(v) ==
    IF \A i \in 1..(Len(v) - 1) : v[i] <= v[i + 1] THEN v ELSE sort(v)

\* CompressedPostingList::default()
CompressedDefault == [panic |-> FALSE, len |-> 0, data |-> << >>]

\* CompressedPostingList::new
compressed_new(posting_list) ==
    IF posting_list = << >>
    THEN CompressedDefault
    ELSE LET sorted == sort_unstable(posting_list)
             chunks == chunks_exact(pad(sorted))
             made == [k \in 1..Len(chunks) |-> compress_chunk(chunks[k])]
         IN  [panic |-> \E k \in 1..Len(made) : made[k].panic,
              len |-> Len(posting_list),
              data |-> [k \in 1..Len(made) |-> made[k].chunk]]

\* CompressedPostingList::len
compressed_len(self) == self.len

RECURSIVE decompress_chunks(_)
\* The flat_map of iter and contains: every chunk decompressed, one after
\* the other.
decompress_chunks(data) ==
    IF data = << >>
    THEN << >>
    ELSE decompress_sorted(Head(data).offset, Head(data).data,
                           (Head(data).data.size * 8) \div BLOCK_LEN)
         \o decompress_chunks(Tail(data))

\* Iterator::take(n)
take(items, n) == SubSeq(items, 1, IF n <= Len(items) THEN n ELSE Len(items))

\* An iter that does not stop after len ids.
compressed_iter_with_padding(self, accepted) ==
    SelectSeq(decompress_chunks(self.data), LAMBDA doc_id : doc_id \in accepted)

\* CompressedPostingList::iter(filter), the filter given by the set of ids
\* it accepts.
compressed_iter(self, accepted) ==
    SelectSeq(take(decompress_chunks(self.data), self.len),
              LAMBDA doc_id : doc_id \in accepted)

\* A sorted, duplicate-free list of n ids from first on, its gaps
\* alternating between stride and 1.
GappedList(n, first, stride) ==
    [i \in 1..n |-> first + ((i - 1) \div 2) * (stride + 1) + ((i - 1) % 2) * stride]

\* The lists given to CompressedPostingList::new.
CompressedInputs ==
    { GappedList(n, first, stride) :
        n \in 0..MaxListLen, first \in {0, FirstId}, stride \in 1..MaxStride }

indexVars == <<clocks, inflight, seen, rp, fsDest, fsTmp, st, index, build, hist>>

\* A PostingList that holds one of the lists.
InitCompressed ==
    /\ clocks = EmptyMap
    /\ last = NoCall
    /\ inflight = EmptyBag
    /\ seen = [k \in Keys |-> -1]
    /\ rp = EmptyMap
    /\ fsDest = Absent
    /\ fsTmp = Absent
    /\ st = NoStore
    /\ index = new(TRUE)
    /\ build = NoBuild
    /\ hist = NoHist
    /\ \E list \in CompressedInputs :
           plist = [NoPosting EXCEPT !.list = list, !.ids = Elems(list)]

\* CompressedPostingList::new(posting_list)
CompressedNew ==
    /\ ~plist.compressed.some
    /\ plist' = [plist EXCEPT !.compressed = Some(compressed_new(plist.list))]
    /\ last' = [op |-> "compressed_new"]
    /\ UNCHANGED indexVars

\* CompressedPostingList::iter(|_| true), collected
CompressedIter ==
    /\ plist.compressed.some
    /\ ~plist.compressed.v.panic
    /\ ~plist.items.some
    /\ plist' = [plist EXCEPT !.items = Some(compressed_iter(plist.compressed.v, Nat))]
    /\ last' = [op |-> "compressed_iter"]
    /\ UNCHANGED indexVars

NextCompressed ==
    \/ CompressedNew
    \/ CompressedIter

SpecCompressed == InitCompressed /\ [][NextCompressed]_vars

\* C23: for a sorted, duplicate-free list p, CompressedPostingList::new(p)
\* returns with len = |p|, and iterating it with a filter that accepts every
\* id yields p in order, without the ids that pad the last block.
C23_CompressedRoundTrip ==
    /\ plist.compressed.some =>
           /\ ~plist.compressed.v.panic
           /\ compressed_len(plist.compressed.v) = Len(plist.list)
    /\ plist.items.some => plist.items.v = plist.list

\* A list of more than one block whose last block is padded was compressed
\* and iterated.
C23_Witness ==
    /\ plist.items.some
    /\ Len(plist.list) > BLOCK_LEN
    /\ Len(plist.list) % BLOCK_LEN # 0
    /\ Len(plist.compressed.v.data) = 2
    /\ Len(plist.items.v) = Len(plist.list)

\* ===================================================== PostingList alone

Ids == 0..MaxId

\* PostingList::new(idx)
InitPosting ==
    /\ clocks = EmptyMap
    /\ inflight = EmptyBag
    /\ seen = [k \in Keys |-> -1]
    /\ rp = EmptyMap
    /\ fsDest = Absent
    /\ fsTmp = Absent
    /\ st = NoStore
    /\ index = new(TRUE)
    /\ build = NoBuild
    /\ hist = NoHist
    /\ \E idx \in Ids :
           /\ plist = [NoPosting EXCEPT !.list = posting_new(idx), !.ids = {idx}]
           /\ last = [op |-> "posting_new", idx |-> idx, pre |-> << >>]

\* PostingList::insert(idx)
PostingInsert(idx) ==
    /\ plist' = [plist EXCEPT !.list = posting_insert(plist.list, idx),
                              !.ids = plist.ids \cup {idx}]
    /\ last' = [op |-> "posting_insert", idx |-> idx, pre |-> plist.list]
    /\ UNCHANGED indexVars

\* PostingList::remove(idx)
PostingRemove(idx) ==
    /\ plist' = [plist EXCEPT !.list = posting_remove(plist.list, idx),
                              !.ids = plist.ids \ {idx}]
    /\ last' = [op |-> "posting_remove", idx |-> idx, pre |-> plist.list]
    /\ UNCHANGED indexVars

NextPosting ==
    \/ \E idx \in Ids : PostingInsert(idx)
    \/ \E idx \in Ids : PostingRemove(idx)

SpecPosting == InitPosting /\ [][NextPosting]_vars

\* C24: after any sequence of insert and remove calls on a PostingList made
\* by new(id), the list is strictly increasing and holds exactly the ids
\* inserted and not removed since; contains(x) is true exactly for those ids;
\* inserting an id that is present and removing an id that is absent leave
\* the list as it was.
C24_PostingListSorted ==
    /\ \A i \in 1..(Len(plist.list) - 1) : plist.list[i] < plist.list[i + 1]
    /\ Elems(plist.list) = plist.ids
    /\ \A x \in Ids : posting_contains(plist.list, x) <=> x \in plist.ids
    /\ (last.op = "posting_insert" /\ last.idx \in Elems(last.pre)) =>
           plist.list = last.pre
    /\ (last.op = "posting_remove" /\ last.idx \notin Elems(last.pre)) =>
           plist.list = last.pre

\* An id below the others was inserted into a list of two ids or more.
C24_Witness ==
    /\ last.op = "posting_insert"
    /\ Len(last.pre) >= 2
    /\ last.idx \notin Elems(last.pre)
    /\ \A x \in Elems(last.pre) : last.idx < x
    /\ Len(plist.list) = Len(last.pre) + 1

\* ====================================== ClockMap: what an advance reports

\* C25: Clock::advance_to(new_tick) on an existing clock reports updated =
\* true exactly when the clock's tick before the call was below new_tick, and
\* reports as current tick the larger of the tick before and new_tick.
C25_AdvanceToReports ==
    (CorrectTagReturned /\ TagKey \in DOMAIN last.pre)
    => /\ last.updated <=> (last.pre[TagKey] < last.tag.clock_tick)
       /\ last.current = Max(last.pre[TagKey], last.tag.clock_tick)

\* C26: an advance with a tag whose key is not tracked inserts the key with
\* the tag's clock_tick (0 too) and reports updated = true; an advance with a
\* tag for key k leaves every other key as it was, neither adding nor
\* removing one; and no step takes a key out of the clock map.
C26_AdvanceFrame ==
    /\ [](CorrectTagReturned =>
            /\ TagKey \notin DOMAIN last.pre =>
                   /\ TagKey \in DOMAIN clocks
                   /\ clocks[TagKey] = last.tag.clock_tick
                   /\ last.updated
            /\ \A k \in Keys \ {TagKey} :
                   /\ k \in DOMAIN clocks <=> k \in DOMAIN last.pre
                   /\ k \in DOMAIN last.pre => clocks[k] = last.pre[k])
    /\ [][DOMAIN clocks \subseteq DOMAIN clocks']_vars

\* A tag with clock_tick 0 for an untracked key was advanced while another
\* key was tracked with a tick above 0.
C26_Witness ==
    /\ CorrectTagReturned
    /\ TagKey \notin DOMAIN last.pre
    /\ last.tag.clock_tick = 0
    /\ clocks[TagKey] = 0
    /\ \E k \in DOMAIN last.pre : last.pre[k] > 0 /\ clocks[k] = last.pre[k]

\* C27: to_recovery_point returns a recovery point with the key set of the
\* clock map and each key's current tick, leaves the clock map as it was,
\* and an advance of the clock map afterwards leaves the recovery point as
\* it was.
C27_RecoveryPointSnapshot ==
    /\ [](last.op = "to_recovery_point" =>
            /\ DOMAIN rp = DOMAIN clocks
            /\ \A k \in DOMAIN clocks : rp[k] = clocks[k]
            /\ clocks = last.pre)
    /\ [][last'.op = "advance_clock" => rp' = rp]_vars

\* A recovery point was taken of a clock map with one clock at tick 0 and
\* one at the largest tick.
C27_Witness ==
    /\ last.op = "to_recovery_point"
    /\ \E k1, k2 \in DOMAIN rp : rp[k1] = 0 /\ rp[k2] = MaxTick

\* ================================== postings, documents and what matches

\* The token ids that have a slot in the postings table or are in a stored
\* document of the mutable index.
TokensOf(self) ==
    (0..(Len(self.postings) - 1))
        \cup UNION { Elems(get_doc(self, p).v) : p \in Holding(self) }

\* The point is in the posting list of the token.
Posted(self, token, p) ==
    /\ token + 1 <= Len(self.postings)
    /\ self.postings[token + 1].some
    /\ p \in Elems(self.postings[token + 1].v)

\* C28: on the mutable index, after any sequence of index_document and
\* remove_document calls (a point indexed again without being removed first
\* too), a point p is in the posting list of a token t exactly when the
\* document stored at p contains t.
C28_PostingsMatchDocuments ==
    (Quiet /\ index.variant = "Mutable") =>
        \A token \in TokensOf(index), p \in Points :
            Posted(index, token, p)
                <=> (get_doc(index, p).some /\ check(get_doc(index, p).v, token))

\* C29: on either variant, when remove_document(p) has returned true, then
\* for every query check_match returns false for p and filter, when it
\* returns, does not yield p.
C29_RemovedIsNotMatched ==
    (last.op = "remove_document" /\ last.removed) =>
        \A text \in QueryTexts :
            LET query == parsed_query(index, text)
                m == check_match(index, query, last.point)
                f == filter(index, query)
            IN  /\ ~m.panic => ~m.ret
                /\ ~f.panic => last.point \notin Elems(f.items)

\* C30: for the query without tokens filter yields nothing and check_match
\* returns false for every point id, on the mutable and on the immutable
\* variant.
C30_EmptyQueryMatchesNothing ==
    Quiet =>
        /\ filter(index, << >>).items = << >>
        /\ \A point_id \in AnyPoints : ~check_match(index, << >>, point_id).ret

\* ============================================ build_index that fails

\* build_index has returned the error its iterator gave.
BuildFailed ==
    /\ last.op = "build_index"
    /\ last.ret = service_error("iterator")

\* C31: when the iterator given to build_index yields an error item,
\* build_index returns that error and the index is as it was before the call:
\* vocabulary, postings, documents or lengths per point, and points_count.
C31_BuildErrorLeavesIndex ==
    BuildFailed => index = last.pre

====
